---- MODULE Spec2Model ----
(***************************************************************************)
(* Model of src/ai.py: the checkpointed batch reformatter.                 *)
(*                                                                         *)
(* A run (split_and_process_async) loads the checkpoint, schedules one     *)
(* Worker (call_openai_format) per chapter that is not checkpointed,       *)
(* awaits them jointly (asyncio.gather), marks the successful titles done, *)
(* saves the checkpoint, rebuilds the consolidated file                    *)
(* (regenerate_tsv_from_output) and notifies.  The process may be killed   *)
(* at any point, a write in progress included; the files on disk survive,  *)
(* the memory of the run is lost.  An exception that nothing catches ends  *)
(* the process (JSONDecodeError in load_checkpoint, OSError in             *)
(* save_checkpoint, IndexError in regenerate_tsv_from_output,              *)
(* FileNotFoundError in notify_mac).                                       *)
(*                                                                         *)
(* Strings are sequences of Unicode code points, so that formatting,       *)
(* slicing, stripping and filename sorting are computed as Python does.    *)
(***************************************************************************)
EXTENDS Integers, Sequences, FiniteSets

(***************************************************************************)
(* Bounds of the model.                                                    *)
(***************************************************************************)
\* number of chapters of the input document
NumChapters == 2
\* number of times the script is started
MaxRuns == 2
\* largest integer value given to the chapter cap MAX_CHAPTERS
MaxCap == 1
\* number of chapters of the document of the timed specification
RateChapters == 2
\* the requests-per-minute quota RATE_LIMIT of the timed specification
RateQuota == 2
\* largest clock value the timed specification explores, in seconds
MaxTime == 30
\* number of chapters of the document of the specification with faults
FaultChapters == 1
\* number of writes that stop with part of their text in the file
MaxCuts == 1
\* largest number of whole characters such a write leaves in the file, in
\* the runs over the document of NumChapters or RateChapters chapters that
\* start from a fresh disk with no cap
MaxCutLen == 1
\* the same in the other runs: no text of the model is that long
FaultCutLen == 40

(***************************************************************************)
(* Code points.                                                            *)
(***************************************************************************)
TAB == 9
NL == 10
CR == 13
SP == 32
DOT == 46
ZERO == 48
BACKSLASH == 92
LOWER_A == 97
LOWER_B == 98
LOWER_C == 99
LOWER_N == 110
LOWER_T == 116
LOWER_X == 120
\* the characters of CHAPTER_PATTERN: 第, 章, （, ）
DI == 31532
ZHANG == 31456
LPAREN == 65288
RPAREN == 65289
\* a CJK character for the chapter names and subtitles
QI == 36215
\* not a code point: the first bytes of a character whose last bytes are
\* missing, as a file ends with when it is cut inside a UTF-8 sequence
PARTIAL_CHAR == -1

(***************************************************************************)
(* Program constants.                                                      *)
(***************************************************************************)
\* MAX_CHAPTERS = None is written NoCap
NoCap == -1
\* RATE_LIMIT = 10
ConfiguredRateLimit == 10
\* AsyncLimiter(RATE_LIMIT, 60): the limiter's time period, in seconds
TIME_PERIOD == 60
\* call_openai_format(..., max_retries=5)
max_retries == 5
\* the width of f"{chapter_num:04d}"
PadWidth == 4
\* lines[0].strip()[4:]
TitleSliceStart == 4
\* session.post(..., timeout=60): the seconds a request may take
REQUEST_TIMEOUT == 60
\* await asyncio.sleep(30 * attempt) and await asyncio.sleep(5 * attempt)
Backoff429 == 30
BackoffError == 5

(***************************************************************************)
(* Strings.                                                                *)
(***************************************************************************)
\* str.strip() and re's \s: the whitespace characters
IsSpace(c) ==
    c \in {9, 10, 11, 12, 13, 28, 29, 30, 31, 32, 133, 160, 5760}
             \cup 8192..8202 \cup {8232, 8233, 8239, 8287, 12288}

RECURSIVE LStrip(_)
LStrip(s) == IF s # <<>> /\ IsSpace(Head(s)) THEN LStrip(Tail(s)) ELSE s

RECURSIVE RStrip(_)
RStrip(s) ==
    IF s # <<>> /\ IsSpace(s[Len(s)]) THEN RStrip(SubSeq(s, 1, Len(s) - 1)) ELSE s

\* s.strip()
Strip(s) == RStrip(LStrip(s))

\* s[k:]
SliceFrom(s, k) == SubSeq(s, k + 1, Len(s))

\* s.endswith(suffix)
EndsWith(s, suffix) ==
    /\ Len(s) >= Len(suffix)
    /\ SubSeq(s, Len(s) - Len(suffix) + 1, Len(s)) = suffix

\* s.replace(old, new) for a single character old
RECURSIVE ReplaceChar(_, _, _)
ReplaceChar(s, old, new) ==
    IF s = <<>> THEN <<>>
    ELSE (IF Head(s) = old THEN new ELSE <<Head(s)>>)
         \o ReplaceChar(Tail(s), old, new)

\* ''.join(list)
RECURSIVE Join(_)
Join(list) == IF list = <<>> THEN <<>> ELSE Head(list) \o Join(Tail(list))

\* the lines of the text s, read after the characters of line, as a file
\* opened in text mode gives them (universal newlines): "\n", "\r" and
\* "\r\n" end a line, and each is given as "\n"
RECURSIVE SplitLines(_, _)
SplitLines(s, line) ==
    IF s = <<>> THEN (IF line = <<>> THEN <<>> ELSE <<line>>)
    ELSE IF Head(s) = NL
         THEN <<Append(line, NL)>> \o SplitLines(Tail(s), <<>>)
    ELSE IF Head(s) = CR
         THEN <<Append(line, NL)>>
              \o SplitLines(IF Tail(s) # <<>> /\ Head(Tail(s)) = NL
                            THEN Tail(Tail(s)) ELSE Tail(s),
                            <<>>)
         ELSE SplitLines(Tail(s), Append(line, Head(s)))

\* f.readlines() on open(path, 'r'): the lines of a text, each with its
\* line end
ReadLines(s) == SplitLines(s, <<>>)

\* a < b for Python strings: by code point, a proper prefix first
RECURSIVE StrLess(_, _)
StrLess(a, b) ==
    IF b = <<>> THEN FALSE
    ELSE IF a = <<>> THEN TRUE
    ELSE IF Head(a) # Head(b) THEN Head(a) < Head(b)
    ELSE StrLess(Tail(a), Tail(b))

\* sorted(names) for a set of distinct strings
RECURSIVE Sorted(_)
Sorted(names) ==
    IF names = {} THEN <<>>
    ELSE LET least == CHOOSE a \in names : \A b \in names \ {a} : StrLess(a, b)
         IN  <<least>> \o Sorted(names \ {least})

\* the decimal digits of n >= 0
RECURSIVE Digits(_)
Digits(n) == IF n < 10 THEN <<ZERO + n>> ELSE Digits(n \div 10) \o <<ZERO + (n % 10)>>

RECURSIVE ZeroPad(_, _)
ZeroPad(s, width) == IF Len(s) >= width THEN s ELSE ZeroPad(<<ZERO>> \o s, width)

\* f"{n:04d}"
Format04d(n) == ZeroPad(Digits(n), PadWidth)

(***************************************************************************)
(* The input document, as re.split(CHAPTER_PATTERN, content) returns it:   *)
(* parts[0] is the text before the first heading, then heading and body    *)
(* alternate.  The document holds chapters 9, 10, ... of a novel:          *)
(*   "第9章 起（起）\n x\nx \n第10章 起（起）\n x\nx \n..."                   *)
(***************************************************************************)
ChapterTitle(n) == <<DI>> \o Digits(n + 8) \o <<ZHANG, SP, QI, LPAREN, QI, RPAREN>>

ChapterBody == <<SP, LOWER_X, NL, LOWER_X, SP, NL>>

RECURSIVE SplitParts(_)
SplitParts(n) ==
    IF n = 0 THEN <<<<>>>>
    ELSE SplitParts(n - 1) \o <<ChapterTitle(n), ChapterBody>>

\* parts[i] with Python's index, from 0
At(list, i) == list[i + 1]

(***************************************************************************)
(* What the completion endpoint may answer in data['choices'][0]           *)
(* ['message']['content'] on HTTP 200.                                     *)
(***************************************************************************)
Contents == {<<SP, LOWER_A, NL, LOWER_B, NL>>, <<LOWER_C>>}

(***************************************************************************)
(* Writes that stop before the end.  A file opened with 'w' is emptied at  *)
(* the open; the text reaches it through a buffer, at the close or, for a  *)
(* text longer than the buffer, in pieces.  When the write raises (a disk  *)
(* that fills, a file-size limit, a character UTF-8 cannot encode) or the  *)
(* process is killed in between, the file holds a prefix of the text,      *)
(* which can end inside the bytes of a character.  The empty file, which   *)
(* the open alone leaves, is always a possible outcome; of the writes that *)
(* stop with part of their text in the file a behaviour has as many as its *)
(* initial state allows in cutsLeft, MaxCuts at most, each with at most    *)
(* cutLen whole characters of the text.                                    *)
(***************************************************************************)

\* UTF-8 encodes the character in more than one byte
IsMultiByte(c) == c >= 128

\* what the file holds when the write of text stops after cut characters,
\* or inside the character that follows them
CutText(text, cut, inside) ==
    SubSeq(text, 1, cut) \o (IF inside THEN <<PARTIAL_CHAR>> ELSE <<>>)

\* what a write of text that stops before the end can leave in the file:
\* the characters before any position of the text, alone or followed by
\* the first bytes of the character at that position
PartialTexts(text) ==
    {CutText(text, n, FALSE) : n \in 0..(Len(text) - 1)}
        \cup {CutText(text, n, TRUE) :
                 n \in {c \in 0..(Len(text) - 1) : IsMultiByte(text[c + 1])}}

\* the number of whole characters of a text of a file
WholeChars(text) == Cardinality({i \in 1..Len(text) : text[i] # PARTIAL_CHAR})

\* the texts among them that can be left when left more writes may stop
\* with part of their text in the file, of at most most whole characters
AllowedPartialTexts(text, left, most) ==
    {partial \in PartialTexts(text) :
        partial = <<>> \/ (left > 0 /\ WholeChars(partial) <= most)}

\* the number of such writes still allowed once a write has left partial
LeftAfter(left, partial) == IF partial = <<>> THEN left ELSE left - 1

\* the bytes of the file are the UTF-8 encoding of a text
Decodes(text) == \A i \in 1..Len(text) : text[i] # PARTIAL_CHAR

\* the number of bytes of the character in UTF-8
Utf8Len(c) == IF c < 128 THEN 1 ELSE IF c < 2048 THEN 2 ELSE IF c < 65536 THEN 3 ELSE 4

\* the number of bytes of the text in UTF-8
RECURSIVE ByteLen(_)
ByteLen(text) == IF text = <<>> THEN 0 ELSE Utf8Len(Head(text)) + ByteLen(Tail(text))

\* what a write of text leaves in the file when the file cannot grow beyond
\* size bytes: the first size bytes of the encoding of the text
RECURSIVE CutAtSize(_, _)
CutAtSize(text, size) ==
    IF text = <<>> \/ size = 0 THEN <<>>
    ELSE IF Utf8Len(Head(text)) <= size
         THEN <<Head(text)>> \o CutAtSize(Tail(text), size - Utf8Len(Head(text)))
         ELSE <<PARTIAL_CHAR>>

(***************************************************************************)
(* State.                                                                  *)
(***************************************************************************)
VARIABLES
    parts,         \* re.split(CHAPTER_PATTERN, content) of INPUT_FILE
    MAX_CHAPTERS,  \* the configured chapter cap, NoCap for None
    RATE_LIMIT,    \* the configured requests-per-minute quota
    ckptFile,      \* CHECKPOINT_FILE: [exists, whole, data]: whole when the file
                   \* holds a complete JSON text, data the mapping title -> "done"
    outFiles,      \* OUTPUT_DIR: mapping file name -> content
    tsvFile,       \* TSV_FILE: [exists, text]
    notified,      \* number of desktop notifications shown by the runs followed
    cutsLeft,      \* number of writes that may still stop with part of their
                   \* text in the file
    cutLen,        \* largest number of whole characters such a write leaves
    runs,          \* number of times the script was started
    phase,         \* "idle" (no process), "gather", "aggregate", "notify"
    checkpoint,    \* split_and_process_async's local mapping
    tasks,         \* the scheduled Workers: [title, body, chapter_num]
    pc,            \* per Worker: "limiter", "post", "sleep429", "sleep", "done"
    attempt,       \* per Worker: the loop variable of its retry loop
    ret,           \* per Worker: its return value once done, None or (title, line)
    sleepUntil,    \* per Worker: the time its current asyncio.sleep ends, 0
                   \* when it does not sleep
    postUntil,     \* per Worker: the time its current request times out, 0
                   \* when it awaits no response
    only429,       \* per Worker: every failed response so far was an HTTP 429
    got200,        \* per Worker: it was answered HTTP 200 with a content
    saw200,        \* per Worker: a response of it had the status 200
    wrote,         \* per Worker: number of output files it has written
    requests,      \* per Worker: number of requests it has sent
    now,           \* the event loop's clock, in seconds
    level,         \* the limiter's bucket level, in 1/TIME_PERIOD of a request
    dispatchLog    \* the times at which requests were dispatched in this run

\* the disk and its faults to come
diskVars == <<ckptFile, outFiles, tsvFile, notified, cutsLeft>>
runVars == <<parts, MAX_CHAPTERS, RATE_LIMIT, cutLen, runs, phase, checkpoint, tasks>>
workerVars == <<pc, attempt, ret, sleepUntil, postUntil, only429, got200, saw200, wrote, requests>>
clockVars == <<now, level, dispatchLog>>
vars == <<diskVars, runVars, workerVars, clockVars>>

\* Python's None, as a return value
None == <<>>

\* a mapping with no key
EmptyMap == <<>>

\* an assignment that makes a new mapping of the one key
PutAlone(mapping, key, value) == [k \in {key} |-> value]

\* mapping[key] = value
Put(mapping, key, value) ==
    [k \in DOMAIN mapping \cup {key} |-> IF k = key THEN value ELSE mapping[k]]

Workers == 1..Len(tasks)

\* the titles of the document
Titles == {Strip(At(parts, i)) : i \in {j \in 1..(Len(parts) - 1) : j % 2 = 1}}

(***************************************************************************)
(* Checkpoint store.                                                       *)
(***************************************************************************)
\* json.load(f) returns: the file is absent or holds a complete JSON text
CanLoad == ~ckptFile.exists \/ ckptFile.whole

load_checkpoint == IF ckptFile.exists THEN ckptFile.data ELSE EmptyMap

\* json.dump(data, f) into CHECKPOINT_FILE, opened with 'w'
save_checkpoint(data) == [exists |-> TRUE, whole |-> TRUE, data |-> data]

\* CHECKPOINT_FILE after open(CHECKPOINT_FILE, 'w') and before the whole
\* dumped text has reached the file: it exists and holds no JSON text
TruncatedCheckpoint == [exists |-> TRUE, whole |-> FALSE, data |-> EmptyMap]

(***************************************************************************)
(* Worker: call_openai_format.                                             *)
(***************************************************************************)
TxtSuffix == <<DOT, LOWER_T, LOWER_X, LOWER_T>>

numbered_title(chapter_num, title) == Format04d(chapter_num) \o <<SP>> \o title

\* the file name of output_path, inside OUTPUT_DIR
output_path(chapter_num, title) == numbered_title(chapter_num, title) \o TxtSuffix

\* f_out.write(title + '\n\n' + result)
FileText(title, result) == title \o <<NL, NL>> \o result

\* a write that lands outside OUTPUT_DIR
WriteFileElsewhere(files, path, text) == files

\* open(output_path, 'w') and the write: the file is created or replaced
WriteFile(files, path, text) == Put(files, path, text)

\* return (title, f"{title}\t{safe_result}")
SuccessValue(title, result) ==
    <<title, title \o <<TAB>> \o ReplaceChar(result, NL, <<BACKSLASH, LOWER_N>>)>>

\* the request is sent inside "async with limiter": the Worker has acquired
AcquireStep(w) ==
    /\ phase = "gather"
    /\ pc[w] = "limiter"
    /\ pc' = [pc EXCEPT ![w] = "post"]
    /\ requests' = [requests EXCEPT ![w] = requests[w] + 1]
    /\ postUntil' = [postUntil EXCEPT ![w] = now + REQUEST_TIMEOUT]
    /\ UNCHANGED <<attempt, ret, sleepUntil, only429, got200, saw200, wrote>>
    /\ UNCHANGED <<diskVars, runVars, now>>

\* a limiter that a Worker holds for the time of its "async with" block,
\* backoff sleep included
has_capacity_held ==
    /\ level + TIME_PERIOD <= RATE_LIMIT * TIME_PERIOD
    /\ \A w \in Workers : pc[w] \notin {"post", "sleep429"}

\* AsyncLimiter.has_capacity: the leaky bucket has room for one more
has_capacity == level + TIME_PERIOD <= RATE_LIMIT * TIME_PERIOD

\* the response to the Worker's request arrives: the request was sent and
\* has not timed out
Responds(w) ==
    /\ phase = "gather"
    /\ pc[w] = "post"
    /\ now < postUntil[w]

\* resp.status == 429: sleep 30 * attempt seconds, then continue
Respond429(w) ==
    /\ Responds(w)
    /\ pc' = [pc EXCEPT ![w] = "sleep429"]
    /\ sleepUntil' = [sleepUntil EXCEPT ![w] = now + Backoff429 * attempt[w]]
    /\ postUntil' = [postUntil EXCEPT ![w] = 0]
    /\ UNCHANGED <<attempt, ret, only429, got200, saw200, wrote, requests>>
    /\ UNCHANGED <<diskVars, runVars, clockVars>>

\* attempt == max_retries, in the except clause
BudgetExhausted(a) == a = max_retries

\* except Exception: return None on the last attempt, else sleep 5 * attempt
HandleException(w) ==
    /\ only429' = [only429 EXCEPT ![w] = FALSE]
    /\ IF BudgetExhausted(attempt[w])
       THEN /\ pc' = [pc EXCEPT ![w] = "done"]
            /\ ret' = [ret EXCEPT ![w] = None]
            /\ UNCHANGED sleepUntil
       ELSE /\ pc' = [pc EXCEPT ![w] = "sleep"]
            /\ sleepUntil' = [sleepUntil EXCEPT ![w] = now + BackoffError * attempt[w]]
            /\ UNCHANGED ret
    /\ postUntil' = [postUntil EXCEPT ![w] = 0]
    /\ UNCHANGED <<attempt, wrote, requests>>
    /\ UNCHANGED <<ckptFile, tsvFile, notified, runVars, clockVars>>

\* resp.status is neither 429 nor 200: raise Exception(f"HTTP {resp.status}: ...")
RespondError(w) ==
    /\ Responds(w)
    /\ HandleException(w)
    /\ UNCHANGED <<got200, saw200, outFiles, cutsLeft>>

\* session.post raises before any response: a network error at any time,
\* or TimeoutError once the timeout=60 seconds of the request have passed
RaiseInAttempt(w) ==
    /\ phase = "gather"
    /\ pc[w] = "post"
    /\ HandleException(w)
    /\ UNCHANGED <<got200, saw200, outFiles, cutsLeft>>

\* the output directory, and the value of cutsLeft, after a write of text
\* to path that stopped after the open
StoppedWrite(files, path, text, left) ==
    {[files |-> Put(files, path, partial), cutsLeft |-> LeftAfter(left, partial)] :
        partial \in AllowedPartialTexts(text, left, cutLen)}

\* the same after a write that failed: as they were when
\* open(output_path, 'w') raised, else those of a write that stopped
FailedWrite(files, path, text, left) ==
    {[files |-> files, cutsLeft |-> left]} \cup StoppedWrite(files, path, text, left)

\* resp.status == 200 and the content parses, but the file cannot be
\* written: open(output_path, 'w') raises OSError, or the open succeeds and
\* the write or the close raises (a content that UTF-8 cannot encode, a
\* disk that fills, a file-size limit).  The error, raised inside the try
\* block, is handled by "except Exception" like any failed attempt
WriteFails(w, content) ==
    /\ Responds(w)
    /\ HandleException(w)
    /\ \E after \in FailedWrite(outFiles,
                                output_path(tasks[w].chapter_num, tasks[w].title),
                                FileText(tasks[w].title, Strip(content)),
                                cutsLeft) :
          /\ outFiles' = after.files
          /\ cutsLeft' = after.cutsLeft
    /\ got200' = [got200 EXCEPT ![w] = TRUE]
    /\ saw200' = [saw200 EXCEPT ![w] = TRUE]

\* resp.status == 200 but resp.json() or data['choices'][0]['message']
\* ['content'] raises: a parse failure, handled like any failed attempt
RespondMalformed200(w) ==
    /\ Responds(w)
    /\ HandleException(w)
    /\ saw200' = [saw200 EXCEPT ![w] = TRUE]
    /\ UNCHANGED <<got200, outFiles, cutsLeft>>

\* resp.status == 200 and the content parses: write the file, return success
Respond200(w, content) ==
    /\ Responds(w)
    /\ LET title == tasks[w].title
           result == Strip(content)
           path == output_path(tasks[w].chapter_num, title)
       IN  /\ outFiles' = WriteFile(outFiles, path, FileText(title, result))
           /\ ret' = [ret EXCEPT ![w] = SuccessValue(title, result)]
    /\ pc' = [pc EXCEPT ![w] = "done"]
    /\ wrote' = [wrote EXCEPT ![w] = wrote[w] + 1]
    /\ got200' = [got200 EXCEPT ![w] = TRUE]
    /\ saw200' = [saw200 EXCEPT ![w] = TRUE]
    /\ postUntil' = [postUntil EXCEPT ![w] = 0]
    /\ UNCHANGED <<attempt, sleepUntil, only429, requests>>
    /\ UNCHANGED <<ckptFile, tsvFile, notified, cutsLeft, runVars, clockVars>>

\* a retry loop over range(1, max_retries)
HasNextAttemptShort(a) == a < max_retries - 1

\* a retry loop that never ends
HasNextAttemptAlways(a) == TRUE

\* range(1, max_retries + 1) has a value after a
HasNextAttempt(a) == a < max_retries

\* the sleep is over: the next iteration of the retry loop, or the end of
\* the loop after the last attempt's 429, where the function returns None
WakeStep(w) ==
    /\ phase = "gather"
    /\ pc[w] \in {"sleep429", "sleep"}
    /\ IF HasNextAttempt(attempt[w])
       THEN /\ attempt' = [attempt EXCEPT ![w] = attempt[w] + 1]
            /\ pc' = [pc EXCEPT ![w] = "limiter"]
            /\ UNCHANGED ret
       ELSE /\ pc' = [pc EXCEPT ![w] = "done"]
            /\ ret' = [ret EXCEPT ![w] = None]
            /\ UNCHANGED attempt
    /\ sleepUntil' = [sleepUntil EXCEPT ![w] = 0]
    /\ UNCHANGED <<postUntil, only429, got200, saw200, wrote, requests>>
    /\ UNCHANGED <<diskVars, runVars, clockVars>>

(***************************************************************************)
(* Time and the shared limiter, AsyncLimiter(RATE_LIMIT, 60) of the        *)
(* aiolimiter package: a leaky bucket of capacity RATE_LIMIT that drains   *)
(* RATE_LIMIT / 60 per second; an acquisition needs room for one more and  *)
(* adds one; leaving the "async with" block gives nothing back.  The level *)
(* is kept in units of 1/60 of a request, so that it stays an integer.     *)
(***************************************************************************)
\* AsyncLimiter.acquire returns and session.post is called, at time now
AcquireAt(w) ==
    /\ has_capacity
    /\ AcquireStep(w)
    /\ level' = level + TIME_PERIOD
    /\ dispatchLog' = Append(dispatchLog, now)

\* the same step when the clock is not followed: an await of the limiter
\* resumes at some later step
Acquire(w) ==
    /\ AcquireStep(w)
    /\ UNCHANGED <<level, dispatchLog>>

\* asyncio.sleep returns once its delay has elapsed
WakeAt(w) ==
    /\ sleepUntil[w] <= now
    /\ WakeStep(w)

\* the same step when the clock is not followed
Wake(w) == WakeStep(w)

Sleeping == {w \in Workers : pc[w] \in {"sleep429", "sleep"}}

Max(a, b) == IF a >= b THEN a ELSE b

\* AsyncLimiter._leak after d seconds
Leak(lvl, d) == Max(lvl - d * RATE_LIMIT, 0)

\* the Workers suspended in AsyncLimiter.acquire for want of capacity
Blocked == {w \in Workers : pc[w] = "limiter" /\ ~has_capacity}

\* the Workers that await the response to their request
Posting == {w \in Workers : pc[w] = "post"}

\* d seconds pass while a Worker sleeps, awaits its response or is held by
\* the limiter, up to the next timer of the event loop: the end of a sleep
\* or the timeout of a request
Advance ==
    /\ phase = "gather"
    /\ Sleeping \cup Posting \cup Blocked # {}
    /\ \E d \in 1..MaxTime :
          /\ now + d <= MaxTime
          /\ \A w \in Sleeping : now + d <= sleepUntil[w]
          /\ \A w \in Posting : now + d <= postUntil[w]
          /\ now' = now + d
          /\ level' = Leak(level, d)
    /\ UNCHANGED <<dispatchLog, diskVars, runVars, workerVars>>

(***************************************************************************)
(* Orchestrator: split_and_process_async.                                  *)
(***************************************************************************)
\* a run that skips no chapter
IsCheckpointedNever(title, ckpt) == FALSE

\* title in checkpoint
IsCheckpointed(title, ckpt) == title \in DOMAIN ckpt

\* MAX_CHAPTERS and chapter_num > MAX_CHAPTERS
CapReached(chapter_num, cap) == cap # NoCap /\ cap # 0 /\ chapter_num > cap

\* the for loop over range(1, len(parts), 2), from index i with the counter
\* chapter_num, appending to the list scheduled
RECURSIVE Schedule(_, _, _, _)
Schedule(i, chapter_num, scheduled, ckpt) ==
    IF i >= Len(parts) THEN scheduled
    ELSE LET title == Strip(At(parts, i))
             body == ReplaceChar(Strip(At(parts, i + 1)), NL, <<SP>>)
         IN  IF IsCheckpointed(title, ckpt)
             THEN Schedule(i + 2, chapter_num, scheduled, ckpt)
             ELSE IF CapReached(chapter_num + 1, MAX_CHAPTERS)
                  THEN scheduled
                  ELSE Schedule(i + 2, chapter_num + 1,
                                Append(scheduled,
                                       [title |-> title, body |-> body,
                                        chapter_num |-> chapter_num + 1]),
                                ckpt)

\* the script starts: read and split the input, load the checkpoint, make
\* the limiter and schedule the Workers; on a checkpoint file that holds no
\* complete JSON text json.load raises JSONDecodeError in load_checkpoint
\* and the process ends before anything is scheduled
StartRun ==
    /\ phase = "idle"
    /\ runs < MaxRuns
    /\ runs' = runs + 1
    /\ IF CanLoad
       THEN /\ phase' = "gather"
            /\ checkpoint' = load_checkpoint
            /\ tasks' = Schedule(1, 0, <<>>, load_checkpoint)
            /\ pc' = [w \in 1..Len(tasks') |-> "limiter"]
            /\ attempt' = [w \in 1..Len(tasks') |-> 1]
            /\ ret' = [w \in 1..Len(tasks') |-> None]
            /\ sleepUntil' = [w \in 1..Len(tasks') |-> 0]
            /\ postUntil' = [w \in 1..Len(tasks') |-> 0]
            /\ only429' = [w \in 1..Len(tasks') |-> TRUE]
            /\ got200' = [w \in 1..Len(tasks') |-> FALSE]
            /\ saw200' = [w \in 1..Len(tasks') |-> FALSE]
            /\ wrote' = [w \in 1..Len(tasks') |-> 0]
            /\ requests' = [w \in 1..Len(tasks') |-> 0]
            /\ now' = 0
            /\ level' = 0
            /\ dispatchLog' = <<>>
       ELSE UNCHANGED <<phase, checkpoint, tasks, workerVars, clockVars>>
    /\ UNCHANGED <<parts, MAX_CHAPTERS, RATE_LIMIT, cutLen, diskVars>>

\* a wait that returns with the first Worker that returns
GatherFirstDone == \E w \in Workers : pc[w] = "done"

\* a joint wait that returns only if every Worker has returned success
GatherAllSucceeded == \A w \in Workers : pc[w] = "done" /\ ret[w] # None

\* asyncio.gather(*tasks) returns: every Worker has returned
GatherDone == \A w \in Workers : pc[w] = "done"

\* if result:
Truthy(result) == result # None

\* a loop that marks every scheduled chapter, whatever its result
MarkDoneEvery(results, ckpt) ==
    [title \in DOMAIN ckpt \cup {tasks[w].title : w \in Workers} |-> "done"]

\* for result in results: if result: checkpoint[title] = "done"
RECURSIVE MarkDone(_, _)
MarkDone(results, ckpt) ==
    IF results = <<>> THEN ckpt
    ELSE MarkDone(Tail(results),
                  IF Truthy(Head(results))
                  THEN Put(ckpt, Head(results)[1], "done")
                  ELSE ckpt)

\* after the joint wait: mark the successes and save the checkpoint
SaveCheckpoint ==
    /\ phase = "gather"
    /\ GatherDone
    /\ checkpoint' = MarkDone([w \in Workers |-> ret[w]], checkpoint)
    /\ ckptFile' = save_checkpoint(checkpoint')
    /\ phase' = "aggregate"
    /\ UNCHANGED <<outFiles, tsvFile, notified, cutsLeft>>
    /\ UNCHANGED <<parts, MAX_CHAPTERS, RATE_LIMIT, cutLen, runs, tasks, workerVars, clockVars>>

(***************************************************************************)
(* Aggregator: regenerate_tsv_from_output.                                 *)
(***************************************************************************)
\* the entry built from one output file
Entry(text) ==
    LET entry[lines \in {ReadLines(text)}] ==
            LET original_title == SliceFrom(Strip(lines[1]), TitleSliceStart)
                content == Strip(Join(SubSeq(lines, 3, Len(lines))))
            IN  original_title \o <<NL>> \o content \o <<NL>>
    IN  entry[ReadLines(text)]

\* the .txt files of the directory
TxtFiles(files) == {f \in DOMAIN files : EndsWith(f, TxtSuffix)}

\* f.readlines() decodes every .txt file and lines[0] exists: no file ends
\* inside a character and none is empty
CanRebuild(files) ==
    \A f \in TxtFiles(files) : Decodes(files[f]) /\ ReadLines(files[f]) # <<>>

\* what is written to TSV_FILE for the directory files
RECURSIVE WriteEntries(_, _)
WriteEntries(filenames, files) ==
    IF filenames = <<>> THEN <<>>
    ELSE Entry(files[Head(filenames)]) \o <<NL>> \o WriteEntries(Tail(filenames), files)

regenerate_tsv_from_output(files) == WriteEntries(Sorted(TxtFiles(files)), files)

\* the memory of a process that has ended
Forget ==
    /\ phase' = "idle"
    /\ checkpoint' = EmptyMap
    /\ tasks' = <<>>
    /\ pc' = <<>>
    /\ attempt' = <<>>
    /\ ret' = <<>>
    /\ sleepUntil' = <<>>
    /\ postUntil' = <<>>
    /\ only429' = <<>>
    /\ got200' = <<>>
    /\ saw200' = <<>>
    /\ wrote' = <<>>
    /\ requests' = <<>>
    /\ now' = 0
    /\ level' = 0
    /\ dispatchLog' = <<>>
    /\ UNCHANGED <<parts, MAX_CHAPTERS, RATE_LIMIT, cutLen, runs>>

\* save_checkpoint raises OSError: open(CHECKPOINT_FILE, 'w') raised and
\* the file is as it was, or json.dump or the close raised and the file
\* holds no JSON text.  The call, at line 125, is in no try block: the
\* exception ends the process before the Aggregator is called
SaveFails ==
    /\ phase = "gather"
    /\ GatherDone
    /\ ckptFile' \in {ckptFile, TruncatedCheckpoint}
    /\ Forget
    /\ UNCHANGED <<outFiles, tsvFile, notified, cutsLeft>>

\* an Aggregator that opens TSV_FILE for appending
AggregateAppend ==
    /\ phase = "aggregate"
    /\ CanRebuild(outFiles)
    /\ tsvFile' = [exists |-> TRUE,
                   text |-> tsvFile.text \o regenerate_tsv_from_output(outFiles)]
    /\ phase' = "notify"
    /\ UNCHANGED <<ckptFile, outFiles, notified, cutsLeft>>
    /\ UNCHANGED <<parts, MAX_CHAPTERS, RATE_LIMIT, cutLen, runs, checkpoint, tasks, workerVars, clockVars>>

\* with open(TSV_FILE, 'w'): the consolidated file is replaced by the
\* rebuild; when a .txt file of the directory is empty, lines[0] raises
\* IndexError, and when one ends inside a character, f.readlines() raises
\* UnicodeDecodeError: the process ends before TSV_FILE is opened
Aggregate ==
    /\ phase = "aggregate"
    /\ IF CanRebuild(outFiles)
       THEN /\ tsvFile' = [exists |-> TRUE,
                           text |-> regenerate_tsv_from_output(outFiles)]
            /\ phase' = "notify"
            /\ UNCHANGED <<ckptFile, outFiles, notified, cutsLeft>>
            /\ UNCHANGED <<parts, MAX_CHAPTERS, RATE_LIMIT, cutLen, runs, checkpoint, tasks,
                           workerVars, clockVars>>
       ELSE Forget /\ UNCHANGED diskVars

\* TSV_FILE, and the value of cutsLeft, after a write of TSV_FILE that
\* stopped after the open
StoppedRebuild(files, left) ==
    {[file |-> [exists |-> TRUE, text |-> partial],
      cutsLeft |-> LeftAfter(left, partial)] :
        partial \in AllowedPartialTexts(regenerate_tsv_from_output(files), left,
                                        cutLen)}

\* the Aggregator raises OSError and the process ends with no
\* notification: os.listdir, the open of a .txt file or
\* open(TSV_FILE, 'w') raised and TSV_FILE is as it was, or a write to
\* TSV_FILE or its close raised and it holds a prefix of the rebuild
AggregateFails ==
    /\ phase = "aggregate"
    /\ \E after \in {[file |-> tsvFile, cutsLeft |-> cutsLeft]}
                      \cup (IF CanRebuild(outFiles)
                            THEN StoppedRebuild(outFiles, cutsLeft)
                            ELSE {}) :
          /\ tsvFile' = after.file
          /\ cutsLeft' = after.cutsLeft
    /\ Forget
    /\ UNCHANGED <<ckptFile, outFiles, notified>>

\* notify_mac, then the script ends.  subprocess.run is called without
\* check=True, so an osascript that fails is not noticed
Notify ==
    /\ phase = "notify"
    /\ notified' = notified + 1
    /\ Forget
    /\ UNCHANGED <<ckptFile, outFiles, tsvFile, cutsLeft>>

\* notify_mac raises: subprocess.run finds no osascript to execute
\* (FileNotFoundError) or cannot start it (OSError).  Nothing catches it
\* at line 128 and the script ends with no notification
NotifyFails ==
    /\ phase = "notify"
    /\ Forget
    /\ UNCHANGED diskVars

\* the process is killed.  The files are as the last completed write left
\* them, or, when the kill falls between an open(..., 'w') and the close,
\* the file being written holds a prefix of its text: the output file of a
\* Worker answered 200, CHECKPOINT_FILE (a prefix of a JSON text is no JSON
\* text), or TSV_FILE
Kill ==
    /\ phase # "idle"
    /\ Forget
    /\ \/ UNCHANGED diskVars
       \/ /\ phase = "gather"
          /\ \E w \in Workers : \E content \in Contents :
                /\ pc[w] = "post"
                /\ \E after \in StoppedWrite(outFiles,
                                             output_path(tasks[w].chapter_num,
                                                         tasks[w].title),
                                             FileText(tasks[w].title, Strip(content)),
                                             cutsLeft) :
                      /\ outFiles' = after.files
                      /\ cutsLeft' = after.cutsLeft
          /\ UNCHANGED <<ckptFile, tsvFile, notified>>
       \/ /\ phase = "gather"
          /\ GatherDone
          /\ ckptFile' = TruncatedCheckpoint
          /\ UNCHANGED <<outFiles, tsvFile, notified, cutsLeft>>
       \/ /\ phase = "aggregate"
          /\ CanRebuild(outFiles)
          /\ \E after \in StoppedRebuild(outFiles, cutsLeft) :
                /\ tsvFile' = after.file
                /\ cutsLeft' = after.cutsLeft
          /\ UNCHANGED <<ckptFile, outFiles, notified>>

(***************************************************************************)
(* Specifications.                                                         *)
(***************************************************************************)
Caps == {NoCap} \cup 0..MaxCap

InitDisk ==
    /\ ckptFile = [exists |-> FALSE, whole |-> FALSE, data |-> EmptyMap]
    /\ outFiles = EmptyMap
    /\ tsvFile = [exists |-> FALSE, text |-> <<>>]
    /\ notified = 0

InitMemory ==
    /\ phase = "idle"
    /\ checkpoint = EmptyMap
    /\ tasks = <<>>
    /\ pc = <<>>
    /\ attempt = <<>>
    /\ ret = <<>>
    /\ sleepUntil = <<>>
    /\ postUntil = <<>>
    /\ only429 = <<>>
    /\ got200 = <<>>
    /\ saw200 = <<>>
    /\ wrote = <<>>
    /\ requests = <<>>
    /\ now = 0
    /\ level = 0
    /\ dispatchLog = <<>>

\* an empty output directory, no checkpoint, the script not yet started;
\* the cap is None or a positive integer (a cap of 0, which line 113 takes
\* for no cap, is a configuration of SpecRun).  MaxCuts writes can stop
\* with part of their text in the file: at most MaxCutLen whole characters
\* of it with no cap, any part of it under a cap, where each run has one
\* Worker
Init ==
    /\ parts = SplitParts(NumChapters)
    /\ MAX_CHAPTERS \in Caps \ {0}
    /\ RATE_LIMIT = ConfiguredRateLimit
    /\ runs = 0
    /\ cutsLeft = MaxCuts
    /\ cutLen = (IF MAX_CHAPTERS = NoCap THEN MaxCutLen ELSE FaultCutLen)
    /\ InitDisk
    /\ InitMemory

\* runs of the script, each possibly killed, the clock not followed
Next ==
    \/ StartRun
    \/ \E w \in Workers : Acquire(w)
    \/ \E w \in Workers : Respond429(w)
    \/ \E w \in Workers : RespondError(w)
    \/ \E w \in Workers : RaiseInAttempt(w)
    \/ \E w \in Workers : RespondMalformed200(w)
    \/ \E w \in Workers : \E content \in Contents : WriteFails(w, content)
    \/ \E w \in Workers : \E content \in Contents : Respond200(w, content)
    \/ \E w \in Workers : Wake(w)
    \/ SaveCheckpoint
    \/ SaveFails
    \/ Aggregate
    \/ AggregateFails
    \/ Notify
    \/ NotifyFails
    \/ Kill

Spec == Init /\ [][Next]_vars

\* the title of the n-th chapter of the document, from 1
TitleAt(n) == Strip(At(parts, 2 * n - 1))

\* what the failed write of a chapter can leave in its file when the
\* Aggregator of that run went through all the same: a prefix it can read
LeftBy(title) ==
    {partial \in UNION {PartialTexts(FileText(title, Strip(content))) :
                           content \in Contents} :
        Decodes(partial) /\ ReadLines(partial) # <<>>}

\* the output directory after a first run in which the chapter of title t
\* succeeded with the content contentOf[t], for t in its domain, and the
\* failed write of the chapter of title t left leftOf[t], for t in its
\* domain
FilesOf(contentOf, leftOf) ==
    [f \in {output_path(n, TitleAt(n)) :
               n \in {k \in 1..(Len(parts) \div 2) :
                         TitleAt(k) \in DOMAIN contentOf \cup DOMAIN leftOf}}
        |-> LET title == Strip(SubSeq(f, PadWidth + 2, Len(f) - Len(TxtSuffix)))
            IN  IF title \in DOMAIN contentOf
                THEN FileText(title, Strip(contentOf[title]))
                ELSE leftOf[title]]

\* the titles a first run reaches under the cap
Reached(cap) ==
    {TitleAt(n) : n \in {k \in 1..(Len(parts) \div 2) : ~CapReached(k, cap)}}

\* the first run left the files of leftOf because no file could grow
\* beyond some size (a limit on the size of files): each holds the first
\* bytes of its text, up to that size, and the rebuilt consolidated file
\* was no longer than it
UnderLimit(leftOf) ==
    \E size \in {ByteLen(leftOf[t]) : t \in DOMAIN leftOf} :
        /\ \A t \in DOMAIN leftOf : \E content \in Contents :
              /\ ByteLen(FileText(t, Strip(content))) > size
              /\ leftOf[t] = CutAtSize(FileText(t, Strip(content)), size)
        /\ ByteLen(regenerate_tsv_from_output(FilesOf(EmptyMap, leftOf))) <= size

\* the last run of the script, on a fresh disk (ran false) or on the disk
\* left by a first run that went through to the call of notify_mac (the
\* notification leaves nothing on the disk, and notified counts those of
\* the runs that follow), in which the
\* chapters of done succeeded, each with a content of its own, and the
\* other chapters it reached failed, those of left after a write that left
\* a readable part of the text: at most MaxCuts of them, or all the
\* chapters of the run under a limit on the size of files; every other
\* earlier start of the script was killed before it wrote anything.  The
\* disks that several runs, a run killed later or a run whose save or
\* Aggregator raised leave are reached by Spec
InitRun ==
    /\ parts = SplitParts(NumChapters)
    /\ MAX_CHAPTERS \in Caps
    /\ RATE_LIMIT = ConfiguredRateLimit
    /\ runs = MaxRuns - 1
    /\ \E ran \in BOOLEAN : \E done \in SUBSET Reached(MAX_CHAPTERS) :
       \E left \in SUBSET (Reached(MAX_CHAPTERS) \ done) :
       \E contentOf \in [done -> Contents] :
       \E leftOf \in [left -> UNION {LeftBy(t) : t \in left}] :
          /\ done \cup left # {} => ran
          /\ \A t \in left : leftOf[t] \in LeftBy(t)
          /\ Cardinality(left) <= MaxCuts \/ (done = {} /\ UnderLimit(leftOf))
          /\ ckptFile = [exists |-> ran, whole |-> ran, data |-> [t \in done |-> "done"]]
          /\ outFiles = FilesOf(contentOf, leftOf)
          /\ tsvFile = [exists |-> ran,
                        text |-> regenerate_tsv_from_output(FilesOf(contentOf, leftOf))]
          /\ notified = 0
          /\ cutsLeft = (IF Cardinality(left) <= MaxCuts
                         THEN MaxCuts - Cardinality(left)
                         ELSE 0)
    /\ cutLen = FaultCutLen
    /\ InitMemory

SpecRun == InitRun /\ [][Next]_vars

\* a fresh disk and a document of FaultChapters chapters, no cap
InitFaulty ==
    /\ parts = SplitParts(FaultChapters)
    /\ MAX_CHAPTERS = NoCap
    /\ RATE_LIMIT = ConfiguredRateLimit
    /\ runs = MaxRuns - 1
    /\ cutsLeft = MaxCuts
    /\ cutLen = FaultCutLen
    /\ InitDisk
    /\ InitMemory

\* one run over that document
SpecDisk == InitFaulty /\ [][Next]_vars

\* the script is run again and again with no cap, on a fresh disk or on
\* the disk of an earlier start that ended inside save_checkpoint with no
\* chapter done.  MaxCuts writes can stop with part of their text in the
\* file: any part of it over the document of FaultChapters chapters, at
\* most MaxCutLen whole characters of it over that of NumChapters chapters
InitLive ==
    /\ \E n \in {FaultChapters, NumChapters} :
          /\ parts = SplitParts(n)
          /\ cutLen = (IF n = FaultChapters THEN FaultCutLen ELSE MaxCutLen)
    /\ cutsLeft = MaxCuts
    /\ MAX_CHAPTERS = NoCap
    /\ RATE_LIMIT = ConfiguredRateLimit
    /\ runs = MaxRuns - 2
    /\ ckptFile \in {[exists |-> FALSE, whole |-> FALSE, data |-> EmptyMap],
                     TruncatedCheckpoint}
    /\ outFiles = EmptyMap
    /\ tsvFile = [exists |-> FALSE, text |-> <<>>]
    /\ notified = 0
    /\ InitMemory

\* the steps of runs that are not killed: each ends by itself, with the
\* notification or with an exception.  In the last run every request is
\* answered, with the status 200; the answer may fail to parse and its
\* file may fail to be written
NextLive ==
    \/ StartRun
    \/ \E w \in Workers : Acquire(w)
    \/ runs < MaxRuns /\ \E w \in Workers : Respond429(w)
    \/ runs < MaxRuns /\ \E w \in Workers : RespondError(w)
    \/ runs < MaxRuns /\ \E w \in Workers : RaiseInAttempt(w)
    \/ \E w \in Workers : RespondMalformed200(w)
    \/ \E w \in Workers : \E content \in Contents : WriteFails(w, content)
    \/ \E w \in Workers : \E content \in Contents : Respond200(w, content)
    \/ \E w \in Workers : Wake(w)
    \/ SaveCheckpoint
    \/ SaveFails
    \/ Aggregate
    \/ AggregateFails
    \/ Notify
    \/ NotifyFails

\* the event loop runs whatever is ready, every request gets a response or
\* times out (timeout=60), the limiter grants every acquisition in the end,
\* and the script is started again after a run
SpecLive == InitLive /\ [][NextLive]_vars /\ WF_vars(NextLive)

\* one run with no cap over the document of NumChapters chapters, on a
\* fresh disk
InitOnce ==
    /\ parts = SplitParts(NumChapters)
    /\ MAX_CHAPTERS = NoCap
    /\ RATE_LIMIT = ConfiguredRateLimit
    /\ runs = MaxRuns - 1
    /\ cutsLeft = MaxCuts
    /\ cutLen = MaxCutLen
    /\ InitDisk
    /\ InitMemory

\* the steps of a run that is not killed, its requests answered or failing
\* in every way
NextOnce ==
    \/ StartRun
    \/ \E w \in Workers : Acquire(w)
    \/ \E w \in Workers : Respond429(w)
    \/ \E w \in Workers : RespondError(w)
    \/ \E w \in Workers : RaiseInAttempt(w)
    \/ \E w \in Workers : RespondMalformed200(w)
    \/ \E w \in Workers : \E content \in Contents : WriteFails(w, content)
    \/ \E w \in Workers : \E content \in Contents : Respond200(w, content)
    \/ \E w \in Workers : Wake(w)
    \/ SaveCheckpoint
    \/ SaveFails
    \/ Aggregate
    \/ AggregateFails
    \/ Notify
    \/ NotifyFails

\* the event loop runs whatever is ready, every request gets a response or
\* times out (timeout=60) and the limiter grants every acquisition in the
\* end
SpecOnce == InitOnce /\ [][NextOnce]_vars /\ WF_vars(NextOnce)

\* one run with no cap, a quota of RateQuota requests per minute and an
\* empty checkpoint, the clock followed
InitRate ==
    /\ parts = SplitParts(RateChapters)
    /\ MAX_CHAPTERS = NoCap
    /\ RATE_LIMIT = RateQuota
    /\ runs = MaxRuns - 1
    /\ cutsLeft = MaxCuts
    /\ cutLen = MaxCutLen
    /\ InitDisk
    /\ InitMemory

NextRate ==
    \/ StartRun
    \/ \E w \in Workers : AcquireAt(w)
    \/ \E w \in Workers : Respond429(w)
    \/ \E w \in Workers : RespondError(w)
    \/ \E w \in Workers : RaiseInAttempt(w)
    \/ \E w \in Workers : RespondMalformed200(w)
    \/ \E w \in Workers : \E content \in Contents : WriteFails(w, content)
    \/ \E w \in Workers : \E content \in Contents : Respond200(w, content)
    \/ \E w \in Workers : WakeAt(w)
    \/ Advance
    \/ SaveCheckpoint
    \/ SaveFails
    \/ Aggregate
    \/ AggregateFails
    \/ Notify
    \/ NotifyFails

SpecRate == InitRate /\ [][NextRate]_vars

(***************************************************************************)
(* Properties.                                                             *)
(***************************************************************************)
\* the position of a title in the document, from 1
Position(title) ==
    CHOOSE n \in 1..(Len(parts) \div 2) : Strip(At(parts, 2 * n - 1)) = title

\* the file names a chapter's output file can have
PathsOf(title) == {output_path(n, title) : n \in 1..(Len(parts) \div 2)}

\* the chapter title in the name of an output file
FileTitle(f) == SubSeq(f, PadWidth + 2, Len(f) - Len(TxtSuffix))

\* the file holds the whole text a Worker writes for the chapter of its
\* name answered with content
HoldsText(files, f, content) ==
    f \in DOMAIN files /\ files[f] = FileText(FileTitle(f), Strip(content))

\* a request is dispatched for the chapter in this step
DispatchedFor(title) ==
    \E w \in Workers :
        tasks[w].title = title /\ pc[w] = "limiter" /\ pc'[w] = "post"

\* a Worker is scheduled for the chapter in this step
ScheduledFor(title) ==
    phase = "idle" /\ \E w \in 1..Len(tasks') : tasks'[w].title = title

\* the Worker writes its output file in this step
Writes(w) == phase' = "gather" /\ wrote'[w] > wrote[w]

\* an output file of the chapter is written in this step
WrittenFor(title) == \E w \in Workers : tasks[w].title = title /\ Writes(w)

\* C1: a chapter whose title is in the checkpoint file as a run starts is
\* not scheduled in that run, no request is dispatched for it and none of
\* its output files is written, at any step of the run.
C1_CheckpointedNeverDispatched ==
    [][\A title \in DOMAIN load_checkpoint :
          ~ScheduledFor(title) /\ ~DispatchedFor(title) /\ ~WrittenFor(title)]_vars

\* a later run, started with a checkpointed chapter, has written the file
\* of another chapter
C1_Witness ==
    /\ phase = "gather"
    /\ DOMAIN checkpoint # {}
    /\ \E w \in Workers : pc[w] = "done" /\ wrote[w] = 1

\* C2: every title of the persisted checkpoint has an output file in the
\* output directory, with the whole text of a Worker that succeeded, in
\* every state of every sequence of runs and kills.
C2_CheckpointedHasFile ==
    \A title \in DOMAIN ckptFile.data :
        \E f \in PathsOf(title) : \E content \in Contents :
            HoldsText(outFiles, f, content)

\* after two runs, the last of them stopped between its save and the end
\* of its rebuild (killed, or ended by an exception), the checkpoint holds
\* all titles while the consolidated file is not that of the output files
C2_Witness ==
    /\ phase = "idle"
    /\ runs = MaxRuns
    /\ DOMAIN ckptFile.data = Titles
    /\ tsvFile.text # regenerate_tsv_from_output(outFiles)

\* C3: the checkpoint file and the consolidated file change only in steps
\* taken when every scheduled Worker has returned, and while Workers run
\* the checkpoint file still holds what the run loaded.
C3_SaveOnlyAfterJoin ==
    /\ [][(ckptFile' # ckptFile \/ tsvFile' # tsvFile)
            => \A w \in Workers : pc[w] = "done"]_vars
    /\ [](phase = "gather" => load_checkpoint = checkpoint)

\* a run of two Workers, one failed and one successful, has saved
C3_Witness ==
    /\ phase = "aggregate"
    /\ ckptFile.exists
    /\ \E v, w \in Workers : ret[v] = None /\ ret[w] # None

\* the number of responses (or raised errors) a Worker has met so far
NumResponses(w) == IF pc[w] \in {"limiter", "post"} THEN attempt[w] - 1 ELSE attempt[w]

\* the Worker has met k responses, all of them HTTP 429
Met429s(w, k) == only429[w] /\ ~saw200[w] /\ NumResponses(w) = k

\* the Worker's first k responses were HTTP 429 and the next was a 200
\* whose content it has read
Met429sThen200(w, k) == only429[w] /\ got200[w] /\ NumResponses(w) = k + 1

\* in this step the Worker, answered k times 429 so far, receives a
\* response of status 200
Answered200After429s(w, k) ==
    /\ phase = "gather" /\ phase' = "gather"
    /\ Met429s(w, k)
    /\ pc[w] = "post"
    /\ saw200'[w]

\* the Worker has returned success and written its one output file
SucceededWithOneFile(w) ==
    /\ pc[w] = "done"
    /\ ret[w] # None
    /\ ret[w][1] = tasks[w].title
    /\ wrote[w] = 1
    /\ output_path(tasks[w].chapter_num, tasks[w].title) \in DOMAIN outFiles

\* the Worker has returned the failure sentinel with no file written, or
\* is in the sleep that follows its last 429
EndsWithSentinel(w) ==
    /\ pc[w] \in {"sleep429", "done"}
    /\ pc[w] = "done" => ret[w] = None
    /\ wrote[w] = 0

\* C4, as claimed: for every k from 0 up to max_retries, a Worker whose
\* first k responses are 429 is still to meet its next response, and when
\* that response is a 200 the Worker returns success and has written
\* exactly one output file.
C4_AsClaimed ==
    /\ [](phase = "gather" =>
              \A w \in Workers : \A k \in 0..max_retries :
                  Met429s(w, k) => pc[w] # "done")
    /\ [][\A w \in Workers : \A k \in 0..max_retries :
              Answered200After429s(w, k) => SucceededWithOneFile(w)']_vars

\* C4, amended: the same for every k from 0 up to max_retries - 1 and for
\* a 200 whose content is read and stored in the output file; a 200 whose
\* body does not parse or whose file cannot be written is a failed attempt
\* that writes nothing, and a Worker answered max_retries times 429 sends
\* no further request and returns the failure sentinel, no file written.
C4_Amended ==
    /\ [](phase = "gather" =>
              \A w \in Workers :
                  /\ \A k \in 0..(max_retries - 1) : Met429s(w, k) => pc[w] # "done"
                  /\ Met429s(w, max_retries) => EndsWithSentinel(w))
    /\ [][\A w \in Workers : \A k \in 0..(max_retries - 1) :
              Answered200After429s(w, k) =>
                  IF wrote'[w] > wrote[w]
                  THEN SucceededWithOneFile(w)'
                  ELSE /\ pc'[w] = (IF k + 1 = max_retries THEN "done" ELSE "sleep")
                       /\ ret'[w] = None
                       /\ wrote'[w] = 0]_vars

\* a Worker succeeded on its last attempt, after max_retries - 1 429s
C4_Witness ==
    /\ phase = "gather"
    /\ \E w \in Workers :
          Met429sThen200(w, max_retries - 1) /\ SucceededWithOneFile(w)

\* C5: a Worker that has used its max_retries attempts without a 200, in
\* any mix of 429s and other failures, ends with the failure sentinel, has
\* written no file, and its title is in neither the run's checkpoint
\* mapping nor the checkpoint file, before and after the save.
C5_FailedLeavesNothing ==
    \A w \in Workers :
        (~got200[w] /\ NumResponses(w) = max_retries) =>
            /\ EndsWithSentinel(w)
            /\ tasks[w].title \notin DOMAIN checkpoint
            /\ tasks[w].title \notin DOMAIN ckptFile.data

\* a run has saved its checkpoint with a Worker that failed on a mix of
\* 429s and other failures, beside a successful one
C5_Witness ==
    /\ phase = "notify"
    /\ \E v, w \in Workers :
          /\ pc[w] = "done" /\ ret[w] = None /\ ~only429[w]
          /\ ~got200[w] /\ NumResponses(w) = max_retries
          /\ ret[v] # None /\ tasks[v].title \in DOMAIN ckptFile.data

\* the requests dispatched in the TIME_PERIOD seconds that start at time t
DispatchedInWindow(t) ==
    {j \in 1..Len(dispatchLog) : t <= dispatchLog[j] /\ dispatchLog[j] < t + TIME_PERIOD}

\* C6, as claimed: no window of 60 consecutive seconds holds more than
\* RATE_LIMIT request dispatches, first attempts and retries of all Workers
\* counted.
C6_AsClaimed ==
    \A i \in 1..Len(dispatchLog) :
        Cardinality(DispatchedInWindow(dispatchLog[i])) <= RATE_LIMIT

\* the block of a chapter: its title on one line, then its body, then the
\* blank line that separates the blocks
Block(title, body) == title \o <<NL>> \o body \o <<NL, NL>>

\* the text holds the block
HasBlock(text, block) ==
    \E i \in 0..(Len(text) - Len(block)) : SubSeq(text, i + 1, i + Len(block)) = block

\* C7, as claimed: the consolidated file the Aggregator has just written
\* holds, for every output file with the text a Worker wrote for a chapter,
\* the block made of the chapter's original title and its reformatted
\* body.
C7_AsClaimed ==
    phase = "notify" =>
        \A f \in DOMAIN outFiles : \A content \in Contents :
            HoldsText(outFiles, f, content) =>
                HasBlock(tsvFile.text, Block(FileTitle(f), Strip(content)))

\* the titles of a list of output files, in the order of the list
RECURSIVE TitlesOf(_)
TitlesOf(filenames) ==
    IF filenames = <<>> THEN <<>>
    ELSE <<FileTitle(Head(filenames))>> \o TitlesOf(Tail(filenames))

\* the list of titles follows the order of the document
InDocumentOrder(titles) ==
    \A i, j \in 1..Len(titles) : i < j => Position(titles[i]) <= Position(titles[j])

\* C8, as claimed: every Worker's ordinal is the position of its chapter in
\* the document, so every output file is named by that position, and the
\* file name order of the output directory is the document order.
C8_AsClaimed ==
    /\ \A w \in Workers : tasks[w].chapter_num = Position(tasks[w].title)
    /\ \A f \in DOMAIN outFiles :
          f = output_path(Position(FileTitle(f)), FileTitle(f))
    /\ InDocumentOrder(TitlesOf(Sorted(DOMAIN outFiles)))

\* the output directory holds the file with the whole text of a Worker
\* that succeeded
Written(path) == \E content \in Contents : HoldsText(outFiles, path, content)

\* C9, as claimed: over any sequence of runs and kills, no Worker writes
\* an output file that the output directory already holds with its text.
C9_AsClaimed ==
    [][\A w \in Workers :
          Writes(w) => ~Written(output_path(tasks[w].chapter_num, tasks[w].title))]_vars

\* C10, as claimed: the output directory never holds two files of the same
\* chapter title.
C10_AsClaimed ==
    \A f, g \in DOMAIN outFiles : FileTitle(f) = FileTitle(g) => f = g

\* the Worker was answered HTTP 200 with a content and met an error on
\* opening or writing its output file
WriteFailed(w) == got200[w] /\ wrote[w] = 0

\* C11, as claimed: a filesystem error on a Worker's output file ends the
\* process, so no running process has a Worker that met one and went on to
\* back off, retry or return the failure sentinel.
C11_AsClaimed ==
    \A w \in Workers : ~WriteFailed(w)

\* the positions in the document of the chapters that the mapping the run
\* loaded does not hold
NotCheckpointed ==
    {n \in 1..(Len(parts) \div 2) : Strip(At(parts, 2 * n - 1)) \notin DOMAIN checkpoint}

Min(a, b) == IF a <= b THEN a ELSE b

\* the number of chapters the claim has a run schedule
ClaimedCount ==
    IF MAX_CHAPTERS = NoCap THEN Cardinality(NotCheckpointed)
    ELSE Min(MAX_CHAPTERS, Cardinality(NotCheckpointed))

\* the j-th of the non-checkpointed chapters, in document order
NthNotCheckpointed(j) ==
    CHOOSE n \in NotCheckpointed : Cardinality({m \in NotCheckpointed : m <= n}) = j

\* C12, as claimed: with a cap M >= 0 the Workers of a run are the first
\* min(M, k) of its k non-checkpointed chapters, in document order, and with
\* no cap all k of them.
C12_AsClaimed ==
    phase = "gather" =>
        /\ Len(tasks) = ClaimedCount
        /\ \A j \in 1..Min(Len(tasks), Cardinality(NotCheckpointed)) :
              tasks[j].title = Strip(At(parts, 2 * NthNotCheckpointed(j) - 1))

\* the length of the entries of the .txt files of names, a line end after
\* each
RECURSIVE EntriesLen(_, _)
EntriesLen(names, files) ==
    IF names = {} THEN 0
    ELSE LET f == CHOOSE g \in names : TRUE
         IN  Len(Entry(files[f])) + 1 + EntriesLen(names \ {f}, files)

\* C13: a step of the Aggregator leaves a consolidated file that is a
\* function of the output directory alone, with one block per output file,
\* those of earlier runs included; when no Worker of the run has come to
\* open its file, so that the directory is as the previous rebuild saw it,
\* the rebuilt file is identical to the one it replaces.
C13_RebuildIdempotent ==
    [][(phase = "aggregate" /\ phase' = "notify") =>
          /\ tsvFile'.exists
          /\ tsvFile'.text = regenerate_tsv_from_output(outFiles)
          /\ \A f \in DOMAIN outFiles :
                HasBlock(tsvFile'.text, Entry(outFiles[f]) \o <<NL>>)
          /\ Len(tsvFile'.text) = EntriesLen(DOMAIN outFiles, outFiles)
          /\ (tsvFile.exists /\ \A w \in Workers : wrote[w] = 0 /\ ~got200[w])
                => tsvFile' = tsvFile]_vars

\* a run whose Workers all failed has rebuilt the consolidated file from
\* the output files of an earlier run
C13_Witness ==
    /\ phase = "notify"
    /\ Workers # {}
    /\ \A w \in Workers : wrote[w] = 0 /\ ~got200[w]
    /\ DOMAIN outFiles # {}
    /\ tsvFile.text = regenerate_tsv_from_output(outFiles)

\* the titles of the Workers that have returned success
Succeeded == {tasks[w].title : w \in {v \in Workers : pc[v] = "done" /\ ret[v] # None}}

\* C15: the step that saves the checkpoint writes the mapping the file held
\* at the start of the run, every entry as it was, plus the titles of the
\* Workers that returned success, each mapped to "done", and no other title.
C15_SavedIsLoadedPlusSuccesses ==
    [][(phase = "gather" /\ phase' = "aggregate") =>
          /\ ckptFile'.exists
          /\ DOMAIN ckptFile'.data = DOMAIN load_checkpoint \cup Succeeded
          /\ \A title \in DOMAIN load_checkpoint :
                ckptFile'.data[title] = load_checkpoint[title]
          /\ \A title \in Succeeded : ckptFile'.data[title] = "done"]_vars

\* a run that started with a checkpointed chapter has saved the checkpoint
\* with that entry and the title of a Worker that succeeded
C15_Witness ==
    /\ phase = "aggregate"
    /\ \E w \in Workers : ret[w] # None /\ tasks[w].title \in DOMAIN ckptFile.data
    /\ \E title \in DOMAIN ckptFile.data : \A w \in Workers : tasks[w].title # title

\* the titles of the Workers scheduled by this step
ScheduledTitles == {tasks'[w].title : w \in 1..Len(tasks')}

\* C14, as claimed: when the script is run repeatedly with no cap and from
\* some run on every request is answered HTTP 200, the checkpoint file
\* comes to hold every title of the document and keeps them; every run
\* schedules exactly the chapters its loaded checkpoint lacks, so a chapter
\* that failed is scheduled again and a run over a full checkpoint
\* schedules nothing.  The runs followed are MaxRuns: a behaviour that uses
\* them up and leaves a checkpoint file that one more run would load is
\* not held against the claim.
C14_AsClaimed ==
    /\ <>[](DOMAIN ckptFile.data = Titles \/ (runs = MaxRuns /\ CanLoad))
    /\ [][(phase = "idle" /\ phase' = "gather") =>
              ScheduledTitles = Titles \ DOMAIN load_checkpoint]_vars

\* the Worker sends a request in this step
Requests(w) == phase = "gather" /\ phase' = "gather" /\ requests'[w] > requests[w]

\* the Worker has sent at most max_retries requests, one per attempt: every
\* response met so far, of whatever kind, has used exactly one attempt
WithinBudget(w) ==
    /\ requests[w] <= max_retries
    /\ requests[w] = NumResponses(w) + (IF pc[w] = "post" THEN 1 ELSE 0)

\* C16, as claimed: a Worker sends at most max_retries requests, one per
\* attempt whatever the failures, and sends none after a response of
\* status 200.
C16_AsClaimed ==
    /\ [](\A w \in Workers : WithinBudget(w))
    /\ [][\A w \in Workers : Requests(w) => ~saw200[w]]_vars

\* C16, amended: a Worker sends at most max_retries requests, one per
\* attempt whatever the failures, a response of status 200 that could not
\* be parsed or stored being a failed attempt like another; it sends none
\* after the attempt that wrote its output file, with which it returns.
C16_Amended ==
    /\ [](\A w \in Workers : WithinBudget(w))
    /\ [][\A w \in Workers : Requests(w) => (wrote[w] = 0 /\ pc[w] # "done")]_vars
    /\ [](\A w \in Workers : wrote[w] > 0 => (pc[w] = "done" /\ ret[w] # None))

\* a Worker has used its whole budget on failures, one of them a response
\* of status 200, and has returned the failure sentinel
C16_Witness ==
    \E w \in Workers :
        /\ pc[w] = "done" /\ ret[w] = None
        /\ requests[w] = max_retries
        /\ saw200[w] /\ ~got200[w]

\* the number of requests sent by the Workers 1..n
RECURSIVE SumRequests(_)
SumRequests(n) == IF n = 0 THEN 0 ELSE requests[n] + SumRequests(n - 1)

\* the bucket of the limiter has room for one more acquisition
BucketHasRoom == level + TIME_PERIOD <= RATE_LIMIT * TIME_PERIOD

\* C17: every step in which a Worker sends a request, first attempt or
\* retry, is a step in which that Worker, waiting at the limiter in that
\* attempt, acquires it: the bucket had room and takes one more, and the
\* acquisition is logged; so the requests never outnumber the
\* acquisitions.  A Worker at the limiter acquires as soon as the bucket has
\* room, whichever other Workers wait for the limiter or sleep in backoff.
C17_RequestsPassLimiter ==
    /\ [][\A w \in Workers :
              Requests(w) =>
                  /\ pc[w] = "limiter" /\ attempt'[w] = attempt[w]
                  /\ requests'[w] = requests[w] + 1
                  /\ BucketHasRoom
                  /\ level' = level + TIME_PERIOD
                  /\ Len(dispatchLog') = Len(dispatchLog) + 1]_vars
    /\ [](SumRequests(Len(tasks)) <= Len(dispatchLog))
    /\ [](\A w \in Workers :
              (phase = "gather" /\ pc[w] = "limiter" /\ BucketHasRoom)
                  => ENABLED AcquireAt(w))

\* a Worker that had to wait for the limiter has sent its retry while
\* another Worker still sleeps in backoff
C17_Witness ==
    \E v, w \in Workers :
        /\ pc[w] = "post" /\ requests[w] = 2
        /\ pc[v] \in {"sleep429", "sleep"} /\ now < sleepUntil[v]

\* a Worker of the run has exhausted its retry budget
SomeWorkerFailed == \E w \in Workers : pc[w] = "done" /\ ret[w] = None

\* the Worker's title is in the saved checkpoint and its output file, with
\* the title and the result it returned, is in the output directory
Kept(w) ==
    /\ tasks[w].title \in DOMAIN ckptFile.data
    /\ output_path(tasks[w].chapter_num, tasks[w].title) \in DOMAIN outFiles
    /\ \E content \in Contents :
          /\ outFiles[output_path(tasks[w].chapter_num, tasks[w].title)]
                = FileText(tasks[w].title, Strip(content))
          /\ ret[w] = SuccessValue(tasks[w].title, Strip(content))

\* C18, as claimed: a run in which a Worker has exhausted its retry budget
\* still reaches the checkpoint save, after which the Aggregator runs, and
\* once the checkpoint is saved every Worker of the run that returned
\* success has its title in the checkpoint file and its output file on
\* disk.
C18_AsClaimed ==
    /\ (phase = "gather" /\ SomeWorkerFailed)
          ~> (phase = "aggregate" /\ SomeWorkerFailed /\ ckptFile.exists)
    /\ [](phase \in {"aggregate", "notify"} =>
              \A w \in Workers : ret[w] # None => Kept(w))

\* every scheduled Worker has returned, with success or the sentinel
AllSettled ==
    \A w \in Workers : pc[w] = "done" /\ (ret[w] = None \/ ret[w][1] = tasks[w].title)

\* the checkpoint save of the run, which comes once every Worker has
\* settled, completes in this step and the Aggregator is next
SaveCompletes ==
    /\ AllSettled
    /\ phase' = "aggregate"
    /\ ckptFile'.exists /\ ckptFile'.whole
    /\ DOMAIN ckptFile'.data =
          DOMAIN load_checkpoint
              \cup {tasks[w].title : w \in {v \in Workers : ret[v] # None}}
    /\ UNCHANGED <<outFiles, tsvFile, notified, ret, tasks>>

\* the checkpoint save of the run raises in this step and ends the
\* process: the checkpoint file is as it was or holds no JSON text, and
\* nothing else on the disk has changed
SaveRaises ==
    /\ AllSettled
    /\ phase' = "idle"
    /\ ckptFile' = ckptFile \/ (ckptFile'.exists /\ ~ckptFile'.whole)
    /\ UNCHANGED <<outFiles, tsvFile, notified>>

\* C18, amended: a run in which a Worker has exhausted its retry budget
\* still reaches the checkpoint save: it leaves the joint wait, and the
\* step that leaves it comes when every Worker has settled and is the save
\* of the checkpoint, which either completes, with the Aggregator next, or
\* raises a filesystem error that ends the run before the Aggregator; and
\* once the checkpoint is saved every Worker of the run that returned
\* success has its title in the checkpoint file and its output file on
\* disk.
C18_Amended ==
    /\ (phase = "gather" /\ SomeWorkerFailed) ~> (phase # "gather")
    /\ [][(phase = "gather" /\ phase' # "gather") => (SaveCompletes \/ SaveRaises)]_vars
    /\ [](phase \in {"aggregate", "notify"} =>
              \A w \in Workers : ret[w] # None => Kept(w))

\* a run with a Worker that used its whole budget and one that succeeded
\* has saved the checkpoint and rebuilt the consolidated file
C18_Witness ==
    /\ phase = "notify"
    /\ \E v, w \in Workers :
          /\ ret[v] = None /\ requests[v] = max_retries
          /\ ret[w] # None /\ Kept(w)

\* the Worker's attempt fails in this step
Fails(w) ==
    /\ phase = "gather" /\ phase' = "gather"
    /\ pc[w] = "post" /\ pc'[w] # "post" /\ wrote'[w] = wrote[w]

\* the Worker starts a backoff sleep of the given seconds in this step
Sleeps(w, seconds) ==
    pc'[w] \in {"sleep429", "sleep"} /\ sleepUntil'[w] = now + seconds

\* C19, as claimed: a Worker whose attempt a < max_retries fails sleeps
\* 30 * a seconds after an HTTP 429 and 5 * a seconds after another failure;
\* a Worker whose last attempt fails, in whatever way, returns the failure
\* sentinel at once, with no backoff sleep.
C19_AsClaimed ==
    [][\A w \in Workers :
          Fails(w) =>
              IF attempt[w] < max_retries
              THEN \/ pc'[w] = "sleep429" /\ Sleeps(w, Backoff429 * attempt[w])
                   \/ pc'[w] = "sleep" /\ Sleeps(w, BackoffError * attempt[w])
              ELSE pc'[w] = "done" /\ ret'[w] = None]_vars

\* the stages of a run follow one another in the order of the code, and
\* each file is written by its stage only
StagesInOrder ==
    /\ phase' # phase =>
          \/ phase = "idle" /\ phase' = "gather"
          \/ phase = "gather" /\ phase' = "aggregate" /\ AllSettled
                /\ ckptFile'.exists /\ ckptFile'.data = checkpoint'
          \/ phase = "aggregate" /\ phase' = "notify" /\ tsvFile'.exists
          \/ phase = "notify" /\ phase' = "idle" /\ notified' = notified + 1
    /\ ckptFile' # ckptFile => (phase = "gather" /\ phase' = "aggregate")
    /\ tsvFile' # tsvFile => (phase = "aggregate" /\ phase' = "notify")
    /\ notified' # notified => (phase = "notify" /\ phase' = "idle")

\* C20, as claimed: in a run that is not killed every scheduled Worker
\* settles, the joint wait returns and the run saves the checkpoint, then
\* rebuilds the consolidated file, then notifies and ends, in that order.
C20_AsClaimed ==
    /\ (phase = "gather") ~> (phase = "gather" /\ AllSettled)
    /\ (phase = "gather") ~> (phase = "aggregate")
    /\ (phase = "aggregate") ~> (phase = "notify")
    /\ (phase = "notify") ~> (phase = "idle")
    /\ [][StagesInOrder]_vars

====
